---- MODULE Spec2Model ----
(***************************************************************************)
(* TreeStore (src/src/lib/TreeStore.ts): an in-memory store of records     *)
(* {id, parent, label} kept in three views: the ordered array `items`, the *)
(* Map `idMap` (id -> record) and the Map `childrenMap` (parent id ->      *)
(* array of records).                                                      *)
(*                                                                         *)
(* The three views share record instances by reference.  A record instance *)
(* is identified here by its position in `items`: `items` holds the field  *)
(* values, `idMap` and `childrenMap` hold positions into `items`.          *)
(***************************************************************************)
EXTENDS Integers, Sequences, FiniteSets, TLC

\* Bounds of the model.
MaxInit == 2        \* the constructor receives at most MaxInit records
MaxItems == 3       \* addItem is explored while fewer than MaxItems records are stored

\* `null` of TreeItem.parent
NULL == -1

\* Ids a record can carry (as id or as parent); 0 is an id that is never stored
\* (the tests' 999 / 'unknown') and can only be asked for.
Ids == {1, 2, 3}
QueryIds == Ids \cup {0}
Parents == Ids \cup {NULL}
Labels == {"a"}

\* The TreeItem type.
TreeItem == [id : Ids, parent : Parents, label : Labels]

VARIABLES items, idMap, childrenMap, last

vars == <<items, idMap, childrenMap, last>>
store == <<items, idMap, childrenMap>>

\* The empty Map.
EmptyMap == <<>>

\* Map.prototype.set
MapSet(m, k, v) == IF k \in DOMAIN m THEN [m EXCEPT ![k] = v] ELSE m @@ (k :> v)

\* Map.prototype.delete
MapDelete(m, k) == [x \in (DOMAIN m) \ {k} |-> m[x]]

\* push replaced by unshift: the record goes to the front of its parent's list.
PushChildFront(cm, parent, ref) ==
    IF parent = NULL THEN cm
    ELSE IF parent \in DOMAIN cm THEN [cm EXCEPT ![parent] = <<ref>> \o @]
    ELSE cm @@ (parent :> <<ref>>)

\* if (!childrenMap.has(parent)) childrenMap.set(parent, []); childrenMap.get(parent).push(item)
PushChild(cm, parent, ref) ==
    IF parent = NULL THEN cm
    ELSE IF parent \in DOMAIN cm THEN [cm EXCEPT ![parent] = Append(@, ref)]
    ELSE cm @@ (parent :> <<ref>>)

\* The loop that (re)builds childrenMap from the array, from position k on.
RECURSIVE BuildChildren(_, _, _)
BuildChildren(itms, k, cm) ==
    IF k > Len(itms) THEN cm
    ELSE BuildChildren(itms, k + 1, PushChild(cm, itms[k].parent, k))

\* The constructor's idMap.set(item.id, item) over the array: a later record wins.
RECURSIVE BuildIdMap(_, _, _)
BuildIdMap(itms, k, im) ==
    IF k > Len(itms) THEN im
    ELSE BuildIdMap(itms, k + 1, MapSet(im, itms[k].id, k))

\* getItem(id): the position of the record, 0 for undefined.
getItem(id) == IF id \in DOMAIN idMap THEN idMap[id] ELSE 0

\* getChildren falling back to the root records instead of [] for a missing key.
getChildrenOrRoots(id) ==
    IF id \in DOMAIN childrenMap THEN childrenMap[id]
    ELSE SelectSeq([k \in 1..Len(items) |-> k], LAMBDA k : items[k].parent = NULL)

\* getChildren(id): childrenMap.get(id) ?? []
getChildren(id) == IF id \in DOMAIN childrenMap THEN childrenMap[id] ELSE <<>>

\* Iterations after which a traversal that has not finished never will:
\* a finishing walk down pops once per parent-link path, at most 2^n of them;
\* a finishing walk up visits each record at most once.
DownFuel == 2 ^ Len(items)
UpFuel == Len(items)

\* The loop of getAllChildren with result.unshift(child) in place of result.push(child).
RECURSIVE WalkDownPrepend(_, _, _)
WalkDownPrepend(stack, result, fuel) ==
    IF stack = <<>> THEN [result |-> result, done |-> TRUE]
    ELSE IF fuel = 0 THEN [result |-> result, done |-> FALSE]
    ELSE LET currentId == stack[Len(stack)]
             children == getChildren(currentId)
             rest == SubSeq(stack, 1, Len(stack) - 1)
         IN WalkDownPrepend(rest \o [k \in 1..Len(children) |-> items[children[k]].id],
                            children \o result,
                            fuel - 1)

\* The loop of getAllChildren leaving the inner for loop after the first child.
RECURSIVE WalkDownFirstChild(_, _, _)
WalkDownFirstChild(stack, result, fuel) ==
    IF stack = <<>> THEN [result |-> result, done |-> TRUE]
    ELSE IF fuel = 0 THEN [result |-> result, done |-> FALSE]
    ELSE LET currentId == stack[Len(stack)]
             all == getChildren(currentId)
             children == IF all = <<>> THEN <<>> ELSE <<all[1]>>
             rest == SubSeq(stack, 1, Len(stack) - 1)
         IN WalkDownFirstChild(rest \o [k \in 1..Len(children) |-> items[children[k]].id],
                               result \o children,
                               fuel - 1)

\* The while loop of getAllChildren: pop, fetch children, push each to result and stack.
RECURSIVE WalkDown(_, _, _)
WalkDown(stack, result, fuel) ==
    IF stack = <<>> THEN [result |-> result, done |-> TRUE]
    ELSE IF fuel = 0 THEN [result |-> result, done |-> FALSE]
    ELSE LET currentId == stack[Len(stack)]
             children == getChildren(currentId)
             rest == SubSeq(stack, 1, Len(stack) - 1)
         IN WalkDown(rest \o [k \in 1..Len(children) |-> items[children[k]].id],
                     result \o children,
                     fuel - 1)

\* getAllChildren that never pushes a child's id on the stack: direct children only.
getAllChildrenDirect(id) == [result |-> getChildren(id), done |-> TRUE]

\* getAllChildren(id): [result, done]; done is FALSE when the loop never ends.
getAllChildren(id) == WalkDown(<<id>>, <<>>, DownFuel)

\* The loop of getAllParents with currentId = item.id in place of item.parent.
RECURSIVE WalkUpSameId(_, _, _)
WalkUpSameId(currentId, result, fuel) ==
    IF currentId = NULL \/ currentId \notin DOMAIN idMap
    THEN [result |-> result, done |-> TRUE]
    ELSE IF fuel = 0 THEN [result |-> result, done |-> FALSE]
    ELSE LET item == idMap[currentId]
         IN WalkUpSameId(items[item].id, Append(result, item), fuel - 1)

\* The while loop of getAllParents.
RECURSIVE WalkUp(_, _, _)
WalkUp(currentId, result, fuel) ==
    IF currentId = NULL \/ currentId \notin DOMAIN idMap
    THEN [result |-> result, done |-> TRUE]
    ELSE IF fuel = 0 THEN [result |-> result, done |-> FALSE]
    ELSE LET item == idMap[currentId]
         IN WalkUp(items[item].parent, Append(result, item), fuel - 1)

\* getAllParents that starts the walk at the record's parent, leaving the record out.
getAllParentsExclusive(id) ==
    IF id \in DOMAIN idMap THEN WalkUp(items[idMap[id]].parent, <<>>, UpFuel)
    ELSE [result |-> <<>>, done |-> TRUE]

\* getAllParents with an if in place of the while: the record and its parent only.
getAllParentsParentOnly(id) == [result |-> WalkUp(id, <<>>, 2).result, done |-> TRUE]

\* getAllParents(id): [result, done]; done is FALSE when the loop never ends.
getAllParents(id) == WalkUp(id, <<>>, UpFuel)

\* The record of the last call: operation, outcome, and for a mutation that went
\* through the id it was given and (removeItem) the local toRemove.  NULL / <<>> otherwise.
Call(op, id, outcome, toRemove) ==
    [op |-> op, id |-> id, outcome |-> outcome, toRemove |-> toRemove]

Running == last.outcome # "diverges"

Init ==
    /\ items \in UNION {[1..n -> TreeItem] : n \in 0..MaxInit}
    /\ idMap = BuildIdMap(items, 1, EmptyMap)
    /\ childrenMap = BuildChildren(items, 1, EmptyMap)
    /\ last = Call("constructor", NULL, "ok", <<>>)

\* addItem that pushes to the array before it checks for a duplicate id.
addItemPushFirst(item) ==
    /\ Running
    /\ Len(items) < MaxItems
    /\ items' = Append(items, item)
    /\ IF item.id \in DOMAIN idMap
       THEN /\ last' = Call("addItem", NULL, "DuplicateIdError", <<>>)
            /\ UNCHANGED <<idMap, childrenMap>>
       ELSE /\ idMap' = MapSet(idMap, item.id, Len(items) + 1)
            /\ childrenMap' = PushChild(childrenMap, item.parent, Len(items) + 1)
            /\ last' = Call("addItem", item.id, "ok", <<>>)

addItem(item) ==
    /\ Running
    /\ IF item.id \in DOMAIN idMap
       THEN /\ last' = Call("addItem", NULL, "DuplicateIdError", <<>>)
            /\ UNCHANGED store
       ELSE /\ Len(items) < MaxItems
            /\ items' = Append(items, item)
            /\ idMap' = MapSet(idMap, item.id, Len(items) + 1)
            /\ childrenMap' = PushChild(childrenMap, item.parent, Len(items) + 1)
            /\ last' = Call("addItem", item.id, "ok", <<>>)

\* items.filter(item => !toRemoveSet.has(item.id)), as the kept positions in order.
KeptPositions(itms, toRemoveSet) ==
    SelectSeq([k \in 1..Len(itms) |-> k], LAMBDA k : itms[k].id \notin toRemoveSet)

\* Position after the filter of the record that was at position k.
NewPosition(kept, k) == CHOOSE j \in 1..Len(kept) : kept[j] = k

RECURSIVE DeleteAll(_, _, _)
DeleteAll(im, toRemove, k) ==
    IF k > Len(toRemove) THEN im ELSE DeleteAll(MapDelete(im, toRemove[k]), toRemove, k + 1)

\* removeItem without the cascade: toRemove holds the id alone.
removeItemNoCascade(id) ==
    /\ Running
    /\ LET toRemove == <<id>>
           kept == KeptPositions(items, {id})
           deleted == DeleteAll(idMap, toRemove, 1)
       IN /\ items' = [j \in 1..Len(kept) |-> items[kept[j]]]
          /\ idMap' = [x \in DOMAIN deleted |-> NewPosition(kept, deleted[x])]
          /\ childrenMap' = BuildChildren(items', 1, EmptyMap)
          /\ last' = Call("removeItem", id, "ok", toRemove)

removeItem(id) ==
    /\ Running
    /\ LET walk == getAllChildren(id)
       IN IF ~walk.done
          THEN /\ last' = Call("removeItem", NULL, "diverges", <<>>)
               /\ UNCHANGED store
          ELSE LET toRemove == <<id>> \o [k \in 1..Len(walk.result) |-> items[walk.result[k]].id]
                   toRemoveSet == {toRemove[k] : k \in 1..Len(toRemove)}
                   kept == KeptPositions(items, toRemoveSet)
                   deleted == DeleteAll(idMap, toRemove, 1)
               IN /\ items' = [j \in 1..Len(kept) |-> items[kept[j]]]
                  /\ idMap' = [x \in DOMAIN deleted |-> NewPosition(kept, deleted[x])]
                  /\ childrenMap' = BuildChildren(items', 1, EmptyMap)
                  /\ last' = Call("removeItem", id, "ok", toRemove)

\* Object.assign misread as a replacement of the stored record by the argument.
ObjectReplace(target, source) == source

\* Object.assign(target, source): every field of source overwrites target's.
ObjectAssign(target, source) ==
    [f \in (DOMAIN target) \cup (DOMAIN source) |->
        IF f \in DOMAIN source THEN source[f] ELSE target[f]]

\* updateItem that never rebuilds childrenMap.
updateItemNoRebuild(item) ==
    /\ Running
    /\ LET oldItem == getItem(item.id)
       IN IF oldItem = 0
          THEN /\ last' = Call("updateItem", NULL, "NotFoundError", <<>>)
               /\ UNCHANGED store
          ELSE /\ items' = [items EXCEPT ![oldItem] = ObjectAssign(@, item)]
               /\ idMap' = MapSet(idMap, item.id, oldItem)
               /\ childrenMap' = childrenMap
               /\ last' = Call("updateItem", item.id, "ok", <<>>)

\* updateItem that, on a parent change, pushes the record to the new parent's list
\* and leaves the old parent's list as it was.
updateItemPushOnly(item) ==
    /\ Running
    /\ LET oldItem == getItem(item.id)
       IN IF oldItem = 0
          THEN /\ last' = Call("updateItem", NULL, "NotFoundError", <<>>)
               /\ UNCHANGED store
          ELSE LET parentChanged == items[oldItem].parent # item.parent
               IN /\ items' = [items EXCEPT ![oldItem] = ObjectAssign(@, item)]
                  /\ idMap' = MapSet(idMap, item.id, oldItem)
                  /\ childrenMap' = IF parentChanged
                                    THEN PushChild(childrenMap, item.parent, oldItem)
                                    ELSE childrenMap
                  /\ last' = Call("updateItem", item.id, "ok", <<>>)

\* updateItem that clears childrenMap before looking at parentChanged.
updateItemClearFirst(item) ==
    /\ Running
    /\ LET oldItem == getItem(item.id)
       IN IF oldItem = 0
          THEN /\ last' = Call("updateItem", NULL, "NotFoundError", <<>>)
               /\ UNCHANGED store
          ELSE LET parentChanged == items[oldItem].parent # item.parent
               IN /\ items' = [items EXCEPT ![oldItem] = ObjectAssign(@, item)]
                  /\ idMap' = MapSet(idMap, item.id, oldItem)
                  /\ childrenMap' = IF parentChanged
                                    THEN BuildChildren(items', 1, EmptyMap)
                                    ELSE EmptyMap
                  /\ last' = Call("updateItem", item.id, "ok", <<>>)

updateItem(item) ==
    /\ Running
    /\ LET oldItem == getItem(item.id)
       IN IF oldItem = 0
          THEN /\ last' = Call("updateItem", NULL, "NotFoundError", <<>>)
               /\ UNCHANGED store
          ELSE LET parentChanged == items[oldItem].parent # item.parent
               IN /\ items' = [items EXCEPT ![oldItem] = ObjectAssign(@, item)]
                  /\ idMap' = MapSet(idMap, item.id, oldItem)
                  /\ childrenMap' = IF parentChanged
                                    THEN BuildChildren(items', 1, EmptyMap)
                                    ELSE childrenMap
                  /\ last' = Call("updateItem", item.id, "ok", <<>>)

\* The queries: they return a value and write nothing; a traversal may not finish.
getAllCall ==
    /\ Running
    /\ last' = Call("getAll", NULL, "ok", <<>>)
    /\ UNCHANGED store

getItemCall(id) ==
    /\ Running
    /\ last' = Call("getItem", NULL, "ok", <<>>)
    /\ UNCHANGED store

\* getChildren with a get-or-create lookup: a missing key is set to a new empty list.
getChildrenCallCreating(id) ==
    /\ Running
    /\ last' = Call("getChildren", NULL, "ok", <<>>)
    /\ childrenMap' = IF id \in DOMAIN childrenMap THEN childrenMap
                      ELSE childrenMap @@ (id :> <<>>)
    /\ UNCHANGED <<items, idMap>>

getChildrenCall(id) ==
    /\ Running
    /\ last' = Call("getChildren", NULL, "ok", <<>>)
    /\ UNCHANGED store

getAllChildrenCall(id) ==
    /\ Running
    /\ last' = Call("getAllChildren", NULL, IF getAllChildren(id).done THEN "ok" ELSE "diverges", <<>>)
    /\ UNCHANGED store

getAllParentsCall(id) ==
    /\ Running
    /\ last' = Call("getAllParents", NULL, IF getAllParents(id).done THEN "ok" ELSE "diverges", <<>>)
    /\ UNCHANGED store

\* parents.reverse().map(item => item.id), on the array getAllParents returned.
ReverseIds(path) == [k \in 1..Len(path) |-> items[path[Len(path) + 1 - k]].id]

\* TreeGrid's getDataPath(data) for the stored record at position row:
\* [result, done], the ids from the topmost ancestor down to the record.
getDataPath(row) ==
    IF items[row].parent = NULL THEN [result |-> <<items[row].id>>, done |-> TRUE]
    ELSE LET parents == getAllParents(items[row].id)
         IN [result |-> ReverseIds(parents.result), done |-> parents.done]

getDataPathCall(row) ==
    /\ Running
    /\ last' = Call("getDataPath", NULL, IF getDataPath(row).done THEN "ok" ELSE "diverges", <<>>)
    /\ UNCHANGED store

Next ==
    \/ \E item \in TreeItem : addItem(item)
    \/ \E id \in QueryIds : removeItem(id)
    \/ \E item \in TreeItem : updateItem(item)
    \/ getAllCall
    \/ \E id \in QueryIds : getItemCall(id)
    \/ \E id \in QueryIds : getChildrenCall(id)
    \/ \E id \in QueryIds : getAllChildrenCall(id)
    \/ \E id \in QueryIds : getAllParentsCall(id)
    \/ \E row \in 1..Len(items) : getDataPathCall(row)

Spec == Init /\ [][Next]_vars

(***************************************************************************)
(* Vocabulary of the properties, defined on the array alone.               *)
(***************************************************************************)
Positions == 1..Len(items)
Present(id) == \E i \in Positions : items[i].id = id
Named(id) == \E i \in Positions : items[i].parent = id
WithParent(p) == SelectSeq([k \in Positions |-> k], LAMBDA k : items[k].parent = p)
Range(seq) == {seq[k] : k \in 1..Len(seq)}
NoRepeat(seq) == \A j, k \in 1..Len(seq) : seq[j] = seq[k] => j = k

UniqueIds == \A i, j \in Positions : items[i].id = items[j].id => i = j

\* Ids reached from the ids in S by following parent links of stored records.
RECURSIVE UpClosure(_)
UpClosure(S) ==
    LET T == S \cup ({items[j].parent : j \in {i \in Positions : items[i].id \in S}} \ {NULL})
    IN IF T = S THEN S ELSE UpClosure(T)

\* Ids reached from the record at position i by following parent links one or more times.
AncestorIds(i) == IF items[i].parent = NULL THEN {} ELSE UpClosure({items[i].parent})

Acyclic == \A i \in Positions : items[i].id \notin AncestorIds(i)

\* Records from which id is reached by following parent links one or more times.
Descendants(id) == {i \in Positions : id \in AncestorIds(i)}

\* C1: in every reachable store state no two records of the sequence share an id.
C1_NoSharedId == UniqueIds

\* C2: the ID map holds exactly the records of the sequence: its keys are the ids of
\* the sequence, getItem(r.id) is r for every record r, and absent for every other id.
C2_IdMapExact ==
    /\ DOMAIN idMap = {items[i].id : i \in Positions}
    /\ \A i \in Positions : getItem(items[i].id) = i
    /\ \A id \in QueryIds : ~Present(id) => getItem(id) = 0

\* C3: for every non-null parent value p of the sequence getChildren(p) is exactly the
\* records with parent p in sequence order, and the children map has no other key.
C3_ChildrenExact ==
    /\ \A p \in Parents \ {NULL} : Named(p) => getChildren(p) = WithParent(p)
    /\ \A p \in DOMAIN childrenMap : p # NULL /\ Named(p)

C3_Witness ==
    /\ last.op = "updateItem" /\ last.outcome = "ok"
    /\ \E p \in Ids : Len(getChildren(p)) >= 2 /\ ~Present(p)
    /\ \E q \in Ids : Present(q) /\ getChildren(q) = <<>>

\* C4: addItem with an id already present and updateItem with an id not present fail
\* and leave the sequence, the ID map, the children map and every record as they were.
C4_FailedMutationWritesNothing ==
    [][/\ last'.op = "addItem" =>
            \A item \in TreeItem :
                (Present(item.id) /\ addItem(item))
                    => (last'.outcome = "DuplicateIdError" /\ UNCHANGED store)
       /\ last'.op = "updateItem" =>
            \A item \in TreeItem :
                (~Present(item.id) /\ updateItem(item))
                    => (last'.outcome = "NotFoundError" /\ UNCHANGED store)]_vars

C4_Witness ==
    /\ last.op = "addItem" /\ last.outcome = "DuplicateIdError"
    /\ Len(items) >= 2 /\ DOMAIN childrenMap # {}

\* C5: removeItem(id) filters out of the sequence exactly the record with that id and
\* the records of getAllChildren(id) computed before the call, and no other record.
C5_RemovesExactlySubtree ==
    [][\A id \in QueryIds :
          (removeItem(id) /\ last'.outcome = "ok")
             => LET gone == {i \in Positions : items[i].id = id} \cup Range(getAllChildren(id).result)
                    stay == SelectSeq([k \in Positions |-> k], LAMBDA k : k \notin gone)
                IN items' = [j \in 1..Len(stay) |-> items[stay[j]]]]_vars

\* C6: removeItem of an id that is not present changes nothing, orphan references or not.
C6_RemoveUnknownIsNoOp ==
    [][\A id \in QueryIds : (removeItem(id) /\ ~Present(id)) => UNCHANGED store]_vars

\* C7: for every id that is not the id of a present record, getChildren(id) and
\* getAllChildren(id) are empty, also when a stored record names that id as parent.
C7_UnknownIdHasNoChildren ==
    \A id \in QueryIds :
        ~Present(id) => /\ getChildren(id) = <<>>
                        /\ getAllChildren(id) = [result |-> <<>>, done |-> TRUE]

\* C7 as amended: for an id that is not present, getChildren(id) is the records that
\* name it as parent, and both queries are empty when no stored record names it.
C7_UnknownIdChildrenAreItsOrphans ==
    \A id \in QueryIds :
        ~Present(id) =>
            /\ getChildren(id) = WithParent(id)
            /\ ~Named(id) => /\ getChildren(id) = <<>>
                             /\ getAllChildren(id) = [result |-> <<>>, done |-> TRUE]

C7_Witness ==
    /\ last.op = "getAllChildren" /\ last.outcome = "ok"
    /\ \E id \in Ids : ~Present(id) /\ ~Named(id)
    /\ \E id \in Ids : ~Present(id) /\ Named(id)

\* C8: every call terminates in every reachable state: getAllChildren(id),
\* getAllParents(id) and removeItem(id) finish for every id, and no call hangs.
C8_EveryCallTerminates ==
    /\ Running
    /\ \A id \in QueryIds : getAllChildren(id).done /\ getAllParents(id).done

\* C8 as amended: in every reachable state whose parent relation is acyclic no call
\* hangs; getAllChildren(id) and getAllParents(id) (and so removeItem(id)) finish for
\* every id, getAllParents with at most as many records as are stored, getAllChildren
\* too when ids are unique.
C8_TerminatesWhenAcyclic ==
    Acyclic =>
        /\ Running
        /\ \A id \in QueryIds :
              /\ getAllChildren(id).done
              /\ getAllParents(id).done
              /\ Len(getAllParents(id).result) <= Len(items)
              /\ UniqueIds => Len(getAllChildren(id).result) <= Len(items)

C8_Witness ==
    /\ Acyclic /\ UniqueIds
    /\ last.op = "getAllChildren" /\ last.outcome = "ok"
    /\ Len(items) >= 2
    /\ \E id \in QueryIds : Len(getAllChildren(id).result) = Len(items)
    /\ \E id \in QueryIds : Len(getAllParents(id).result) = Len(items)

\* C9: with unique ids and an acyclic parent relation, getAllChildren(id) holds exactly
\* the records that reach id by parent links, each once, and never the record id.
C9_DescendantsExact ==
    (UniqueIds /\ Acyclic) =>
        \A id \in QueryIds :
            LET walk == getAllChildren(id)
            IN /\ walk.done
               /\ Range(walk.result) = Descendants(id)
               /\ NoRepeat(walk.result)
               /\ \A k \in 1..Len(walk.result) : items[walk.result[k]].id # id

C9_Witness ==
    /\ UniqueIds /\ Acyclic
    /\ last.op = "getAllChildren" /\ last.outcome = "ok"
    /\ \E id \in Ids :
          /\ Present(id)
          /\ Len(getAllChildren(id).result) >= 2
          /\ \E k \in 1..Len(getAllChildren(id).result) :
                items[getAllChildren(id).result[k]].parent # id

\* C10: with an acyclic parent relation, getAllParents(id) of a present id starts with
\* getItem(id), continues with the record of the previous element's parent, and ends at
\* a record whose parent is null or not present; for an id not present it is empty.
C10_AncestorPath ==
    Acyclic =>
        \A id \in QueryIds :
            LET walk == getAllParents(id)
                path == walk.result
            IN /\ walk.done
               /\ ~Present(id) => path = <<>>
               /\ Present(id) =>
                    /\ Len(path) >= 1
                    /\ path[1] = getItem(id) /\ items[path[1]].id = id
                    /\ \A k \in 2..Len(path) :
                          /\ items[path[k]].id = items[path[k - 1]].parent
                          /\ path[k] = getItem(items[path[k - 1]].parent)
                    /\ \/ items[path[Len(path)]].parent = NULL
                       \/ ~Present(items[path[Len(path)]].parent)

C10_Witness ==
    /\ Acyclic
    /\ last.op = "getAllParents" /\ last.outcome = "ok"
    /\ \E id \in Ids :
          LET path == getAllParents(id).result
          IN Len(path) >= 2 /\ items[path[Len(path)]].parent # NULL

\* Vocabulary of the claims about one call: a children list of a given children map,
\* and how often a record occurs in a list.
ChildrenIn(cm, id) == IF id \in DOMAIN cm THEN cm[id] ELSE <<>>
Occurrences(seq, x) == Cardinality({k \in 1..Len(seq) : seq[k] = x})

FieldIds == {1, 2}
FieldParents == {NULL, 1}
FieldLabels == {"a", "b"}
Notes == {"x"}
FieldItem ==
    [id : FieldIds, parent : FieldParents, label : FieldLabels]
        \cup [id : FieldIds, parent : FieldParents, label : FieldLabels, note : Notes]

InitFields ==
    /\ items \in UNION {[1..n -> FieldItem] : n \in 0..MaxInit}
    /\ idMap = BuildIdMap(items, 1, EmptyMap)
    /\ childrenMap = BuildChildren(items, 1, EmptyMap)
    /\ last = Call("constructor", NULL, "ok", <<>>)

NextFields ==
    \/ \E item \in FieldItem : addItem(item)
    \/ \E id \in FieldIds : removeItem(id)
    \/ \E item \in FieldItem : updateItem(item)
    \/ \E id \in FieldIds : getItemCall(id)

SpecFields == InitFields /\ [][NextFields]_vars

\* C12: a successful updateItem merges field by field: afterwards the record getItem
\* returns for that id has every supplied field at the supplied value and every other
\* field at its previous value, it is the same element at the same position, and no
\* other record, the sequence length or the order changes.
C12_UpdateMergesFields ==
    [][last'.op = "updateItem" =>
         \A item \in FieldItem :
            (Present(item.id) /\ updateItem(item))
            => LET ref == getItem(item.id)
               IN /\ DOMAIN items'[ref] = (DOMAIN items[ref]) \cup (DOMAIN item)
                  /\ \A f \in DOMAIN item : items'[ref][f] = item[f]
                  /\ \A f \in (DOMAIN items[ref]) \ (DOMAIN item) :
                        items'[ref][f] = items[ref][f]
                  /\ idMap'[item.id] = ref
                  /\ Len(items') = Len(items)
                  /\ \A k \in Positions \ {ref} : items'[k] = items[k]]_vars

\* An updated record that carries the optional field beside a record that was left alone.
C12_Witness ==
    /\ last.op = "updateItem" /\ last.outcome = "ok"
    /\ Len(items) = 2 /\ UniqueIds
    /\ "note" \in DOMAIN items[getItem(last.id)]
    /\ items[getItem(last.id)].label = "b"
    /\ \E k \in Positions : k # getItem(last.id) /\ items[k].label = "a"

\* C13: a successful addItem appends the record as the last element of the sequence,
\* getItem returns it, and with a non-null parent it becomes the last element of
\* getChildren(parent), the list being created when absent; every other children list,
\* every other idMap entry and the prefix of the sequence are unchanged, and with a
\* null parent the children map is unchanged.
C13_AddAppends ==
    [][last'.op = "addItem" =>
         \A item \in TreeItem :
            (~Present(item.id) /\ addItem(item))
            => LET new == Len(items) + 1
               IN /\ items' = Append(items, item)
                  /\ DOMAIN idMap' = (DOMAIN idMap) \cup {item.id}
                  /\ idMap'[item.id] = new
                  /\ \A x \in DOMAIN idMap : idMap'[x] = idMap[x]
                  /\ item.parent # NULL =>
                        /\ DOMAIN childrenMap' = (DOMAIN childrenMap) \cup {item.parent}
                        /\ childrenMap'[item.parent]
                              = Append(ChildrenIn(childrenMap, item.parent), new)
                        /\ \A p \in (DOMAIN childrenMap) \ {item.parent} :
                              childrenMap'[p] = childrenMap[p]
                  /\ item.parent = NULL => childrenMap' = childrenMap]_vars

\* A record just added behind an older sibling.
C13_Witness ==
    /\ last.op = "addItem" /\ last.outcome = "ok"
    /\ Len(items) = 3 /\ items[3].id = last.id /\ getItem(last.id) = 3
    /\ items[3].parent # NULL
    /\ Len(getChildren(items[3].parent)) = 2
    /\ getChildren(items[3].parent)[2] = 3

(***************************************************************************)
(* The traversals applied to the stores the constructor builds from up to  *)
(* MaxTree records with distinct ids: record k has id k, which loses no    *)
(* store with unique ids since the code only compares ids for equality.    *)
(* The parent values range over null, 1..MaxTree: forests, orphan          *)
(* references and cycles.                                                  *)
(***************************************************************************)
MaxTree == 4
TreeIds == 1..MaxTree
TreeQueryIds == 0..MaxTree
TreeParents == TreeIds \cup {NULL}

InitTree ==
    /\ \E n \in 0..MaxTree :
          \E parentOf \in [1..n -> TreeParents] :
              items = [k \in 1..n |-> [id |-> k, parent |-> parentOf[k], label |-> "a"]]
    /\ idMap = BuildIdMap(items, 1, EmptyMap)
    /\ childrenMap = BuildChildren(items, 1, EmptyMap)
    /\ last = Call("constructor", NULL, "ok", <<>>)

NextTree ==
    \/ \E id \in TreeQueryIds : getChildrenCall(id)
    \/ \E id \in TreeQueryIds : getAllChildrenCall(id)
    \/ \E id \in TreeQueryIds : getAllParentsCall(id)

SpecTree == InitTree /\ [][NextTree]_vars

\* C14: with unique ids and an acyclic parent relation, every record of the result of
\* getAllChildren(id) whose parent is not id stands at a later position than the
\* record of its parent.
C14_AncestorBeforeDescendant ==
    (UniqueIds /\ Acyclic) =>
        \A id \in TreeQueryIds :
            LET res == getAllChildren(id).result
            IN \A k \in 1..Len(res) :
                  items[res[k]].parent # id
                     => \E j \in 1..(k - 1) : items[res[j]].id = items[res[k]].parent

\* A finished walk over a tree of four whose root has a child and a grandchild.
C14_Witness ==
    /\ UniqueIds /\ Acyclic /\ Len(items) = MaxTree
    /\ last.op = "getAllChildren" /\ last.outcome = "ok"
    /\ \E id \in TreeIds :
          LET res == getAllChildren(id).result
          IN /\ Len(res) = MaxTree - 1
             /\ \E k \in 1..Len(res) : items[res[k]].parent # id

\* C15: getAllChildren(id) returns the descendants in depth-first order: for every
\* record r of the result, all descendants of r occupy the positions immediately
\* following r, before any record that is not a descendant of r.
C15_DepthFirstOrder ==
    (UniqueIds /\ Acyclic) =>
        \A id \in TreeQueryIds :
            LET res == getAllChildren(id).result
            IN \A k \in 1..Len(res) :
                  LET below == Descendants(items[res[k]].id)
                  IN {res[j] : j \in (k + 1)..(k + Cardinality(below))} = below

\* C19: with unique ids and an acyclic parent relation, for every present id a and
\* every present record x with another id, x is in getAllChildren(a) exactly when
\* the record with id a is in getAllParents(x.id).
C19_TraversalsDual ==
    (UniqueIds /\ Acyclic) =>
        \A a \in TreeIds : \A x \in Positions :
            (Present(a) /\ items[x].id # a)
               => (x \in Range(getAllChildren(a).result)
                     <=> getItem(a) \in Range(getAllParents(items[x].id).result))

\* A chain of three records below a root, walked in both directions.
C19_Witness ==
    /\ UniqueIds /\ Acyclic /\ Len(items) = MaxTree
    /\ last.op = "getAllParents" /\ last.outcome = "ok"
    /\ \E a \in TreeIds : \E x \in Positions :
          /\ Len(getAllParents(items[x].id).result) >= 3
          /\ getAllParents(items[x].id).result[3] = getItem(a)
          /\ x \in Range(getAllChildren(a).result)
          /\ \E y \in Positions : items[y].id # a /\ y \notin Range(getAllChildren(a).result)

\* C16: removeItem is idempotent: whenever removeItem(id) has terminated, calling
\* removeItem(id) again straight away terminates and leaves the sequence, the ID map
\* and the children map exactly as they were after the first call.
C16_RemoveIdempotent ==
    [][(last.op = "removeItem" /\ last.outcome = "ok") =>
         \A id \in QueryIds :
            (last.id = id /\ removeItem(id))
               => (last'.outcome = "ok" /\ UNCHANGED store)]_vars

\* After a removal of an id that was already gone, beside records that stayed.
C16_Witness ==
    /\ last.op = "removeItem" /\ last.outcome = "ok"
    /\ last.toRemove = <<last.id>>
    /\ ~Present(last.id) /\ ~Named(last.id)
    /\ Len(items) = 2 /\ childrenMap # EmptyMap

\* C17: a successful updateItem whose parent equals the stored record's current parent
\* leaves the children map unchanged: every key keeps the same list in the same order.
C17_SameParentKeepsChildrenMap ==
    [][last'.op = "updateItem" =>
         \A item \in FieldItem :
            (Present(item.id) /\ updateItem(item)
               /\ items[getItem(item.id)].parent = item.parent)
            => childrenMap' = childrenMap]_vars

\* An updated record that is the first of two children of its parent.
C17_Witness ==
    /\ last.op = "updateItem" /\ last.outcome = "ok"
    /\ items[getItem(last.id)].parent # NULL
    /\ items[getItem(last.id)].label = "b"
    /\ Len(getChildren(items[getItem(last.id)].parent)) = 2
    /\ getChildren(items[getItem(last.id)].parent)[1] = getItem(last.id)

\* C18: removeItem creates no new orphan reference: with unique ids and an acyclic
\* parent relation, after removeItem(id) of a present id every remaining record whose
\* parent was the id of a present record still has a parent that is present.
C18_RemoveLeavesNoNewOrphan ==
    [][last'.op = "removeItem" =>
         \A id \in QueryIds :
            (UniqueIds /\ Acyclic /\ Present(id) /\ removeItem(id))
               => \A k \in 1..Len(items') :
                     Present(items'[k].parent)
                        => \E j \in 1..Len(items') : items'[j].id = items'[k].parent]_vars

\* After a removal that took a record off, a record is left under its present parent.
C18_Witness ==
    /\ last.op = "removeItem" /\ last.outcome = "ok"
    /\ UniqueIds /\ Acyclic /\ Len(items) = 2
    /\ \E k \in Positions : Present(items[k].parent)
    /\ ~Present(last.id) /\ ~Named(last.id)

\* C20: the queries getAll, getItem, getChildren, getAllChildren and getAllParents
\* (and getDataPath, which reverses the array getAllParents returned) leave the
\* sequence with every record's fields, the ID map and the children map unchanged.
C20_QueriesArePure ==
    [][last'.op \in {"getAll", "getItem", "getChildren", "getAllChildren",
                     "getAllParents", "getDataPath"}
          => UNCHANGED store]_vars

\* After a query on a store of three records with a children list of two.
C20_Witness ==
    /\ last.op \in {"getChildren", "getAllParents", "getDataPath"}
    /\ Len(items) = 3
    /\ \E p \in DOMAIN childrenMap : Len(childrenMap[p]) = 2

====
